---- MODULE Spec2Model ----
(***************************************************************************)
(* Model of trade_lib/weixin.py: the WXRobot webhook client (send_text,    *)
(* send_markdown, send_image, send_news, _send), the input resolver        *)
(* (sender, read_file) and the command-line entry point (main).            *)
(*                                                                         *)
(* One call from outside is followed from its entry point to its end.      *)
(* Every function of the source is one action; the file system, the remote *)
(* image server and the webhook endpoint are the environment, whose        *)
(* answers are chosen nondeterministically where the code asks for them.   *)
(*                                                                         *)
(* Python values: a str is a TLA+ string; the two non-str objects that the *)
(* code can put where a str is expected are the reserved strings None and  *)
(* Coroutine (never members of the input sets).  bytes are sequences of    *)
(* integers 0..255; the base64 text and the hex digest are sequences of    *)
(* one-character strings.                                                  *)
(***************************************************************************)
EXTENDS Integers, Sequences, FiniteSets, TLC

\* ------------------------------------------------------------------------
\* Bounds of the explored inputs
MaxBytes == 3        \* longest image content, in bytes
MaxArticles == 9     \* longest article list handed to send_news

\* ------------------------------------------------------------------------
\* Python values
None == "<None>"
\* the coroutine object made by calling the async read_file without await
Coroutine == "<coroutine WXRobot.read_file>"

Truthy(x) == x # None /\ x # ""

\* ------------------------------------------------------------------------
\* Input sets
Keys == { "xxxx" }
MsgTypes == { "text", "markdown", "image", "news", "voice" }
DataValues == { "", "Hello world", "# Title\n**bold**" }
Paths == { "demo/file", "http://host/picture.jpg" }
ByteVals == { 97, 255 }

\* the strings that are URLs an HTTP client can fetch
IsHttpUrl(p) == p \in { "http://host/picture.jpg" }

RECURSIVE SeqsUpTo(_, _)
SeqsUpTo(S, n) ==
    IF n = 0 THEN { << >> }
    ELSE LET shorter == SeqsUpTo(S, n - 1)
         IN  shorter \cup { Append(s, x) : s \in shorter, x \in S }

ByteSeqs == SeqsUpTo(ByteVals, MaxBytes)

\* the text a file holds when it is read as UTF-8 (fixed per path)
FileText(path) == "text of " \o path

\* ------------------------------------------------------------------------
\* base64.b64encode(image_content).decode('utf-8')  (weixin.py line 101):
\* RFC 4648 standard alphabet with '=' padding, as a sequence of characters.
\* b64decode is the inverse the receiving endpoint applies.
B64Alphabet ==
    << "A","B","C","D","E","F","G","H","I","J","K","L","M","N","O","P",
       "Q","R","S","T","U","V","W","X","Y","Z","a","b","c","d","e","f",
       "g","h","i","j","k","l","m","n","o","p","q","r","s","t","u","v",
       "w","x","y","z","0","1","2","3","4","5","6","7","8","9","+","/" >>

B64Char(n) == B64Alphabet[n + 1]

B64Index(c) == (CHOOSE i \in 1..64 : B64Alphabet[i] = c) - 1

RECURSIVE b64encode(_)
b64encode(bs) ==
    IF Len(bs) = 0 THEN << >>
    ELSE IF Len(bs) = 1 THEN
        << B64Char(bs[1] \div 4), B64Char((bs[1] % 4) * 16), "=", "=" >>
    ELSE IF Len(bs) = 2 THEN
        << B64Char(bs[1] \div 4),
           B64Char((bs[1] % 4) * 16 + (bs[2] \div 16)),
           B64Char((bs[2] % 16) * 4), "=" >>
    ELSE
        << B64Char(bs[1] \div 4),
           B64Char((bs[1] % 4) * 16 + (bs[2] \div 16)),
           B64Char((bs[2] % 16) * 4 + (bs[3] \div 64)),
           B64Char(bs[3] % 64) >> \o b64encode(SubSeq(bs, 4, Len(bs)))

RECURSIVE b64decode(_)
b64decode(cs) ==
    IF Len(cs) = 0 THEN << >>
    ELSE LET a == B64Index(cs[1])
             b == B64Index(cs[2])
         IN  IF cs[3] = "=" THEN << a * 4 + (b \div 16) >>
             ELSE LET c == B64Index(cs[3])
                  IN  IF cs[4] = "=" THEN << a * 4 + (b \div 16), (b % 16) * 16 + (c \div 4) >>
                      ELSE << a * 4 + (b \div 16), (b % 16) * 16 + (c \div 4),
                              (c % 4) * 64 + B64Index(cs[4]) >>
                           \o b64decode(SubSeq(cs, 5, Len(cs)))

\* ------------------------------------------------------------------------
\* hashlib.md5(); md5.update(image_content); md5.hexdigest()
\* (weixin.py lines 102-104): RFC 1321.  A 32-bit word is a pair
\* << high 16 bits, low 16 bits >> so that no intermediate value leaves
\* the range of TLC's integers.
MD5_K ==
    <<
       <<55146, 42104>>, <<59591, 46934>>, <<9248, 28891>>, <<49597, 52974>>,
       <<62844, 4015>>, <<18311, 50730>>, <<43056, 17939>>, <<64838, 38145>>,
       <<27008, 39128>>, <<35652, 63407>>, <<65535, 23473>>, <<35164, 55230>>,
       <<27536, 4386>>, <<64920, 29075>>, <<42617, 17294>>, <<18868, 2081>>,
       <<63006, 9570>>, <<49216, 45888>>, <<9822, 23121>>, <<59830, 51114>>,
       <<54831, 4189>>, <<580, 5203>>, <<55457, 59009>>, <<59347, 64456>>,
       <<8673, 52710>>, <<49975, 2006>>, <<62677, 3463>>, <<17754, 5357>>,
       <<43491, 59653>>, <<64751, 41976>>, <<26479, 729>>, <<36138, 19594>>,
       <<65530, 14658>>, <<34673, 63105>>, <<28061, 24866>>, <<64997, 14348>>,
       <<42174, 59972>>, <<19422, 53161>>, <<63163, 19296>>, <<48831, 48240>>,
       <<10395, 32454>>, <<60065, 10234>>, <<54511, 12421>>, <<1160, 7429>>,
       <<55764, 53305>>, <<59099, 39397>>, <<8098, 31992>>, <<50348, 22117>>,
       <<62505, 8772>>, <<17194, 65431>>, <<43924, 9127>>, <<64659, 41017>>,
       <<25947, 22979>>, <<36620, 52370>>, <<65519, 62589>>, <<34180, 24017>>,
       <<28584, 32335>>, <<65068, 59104>>, <<41729, 17172>>, <<19976, 4513>>,
       <<63315, 32386>>, <<48442, 62005>>, <<10967, 53947>>, <<60294, 54161>>
    >>

MD5_S ==
    <<
       7, 12, 17, 22, 7, 12, 17, 22, 7, 12, 17, 22, 7, 12, 17, 22,
       5, 9, 14, 20, 5, 9, 14, 20, 5, 9, 14, 20, 5, 9, 14, 20,
       4, 11, 16, 23, 4, 11, 16, 23, 4, 11, 16, 23, 4, 11, 16, 23,
       6, 10, 15, 21, 6, 10, 15, 21, 6, 10, 15, 21, 6, 10, 15, 21
    >>

MD5_Init == << <<26437, 8961>>, <<61389, 43913>>, <<39098, 56574>>, <<4146, 21622>> >>

\* bitwise and: of two 4-bit numbers by bits, of two 16-bit numbers by nibbles
RECURSIVE BitAnd(_, _)
BitAnd(a, b) ==
    IF a = 0 \/ b = 0 THEN 0
    ELSE (a % 2) * (b % 2) + 2 * BitAnd(a \div 2, b \div 2)

And4 == [ a \in 0..15 |-> [ b \in 0..15 |-> BitAnd(a, b) ] ]

And16(a, b) ==
    And4[a % 16][b % 16]
    + 16 * And4[(a \div 16) % 16][(b \div 16) % 16]
    + 256 * And4[(a \div 256) % 16][(b \div 256) % 16]
    + 4096 * And4[a \div 4096][b \div 4096]

W_and(x, y) == << And16(x[1], y[1]), And16(x[2], y[2]) >>
W_or(x, y)  == << x[1] + y[1] - And16(x[1], y[1]), x[2] + y[2] - And16(x[2], y[2]) >>
W_xor(x, y) == << x[1] + y[1] - 2 * And16(x[1], y[1]), x[2] + y[2] - 2 * And16(x[2], y[2]) >>
W_not(x)    == << 65535 - x[1], 65535 - x[2] >>
W_add(x, y) ==
    LET lo == x[2] + y[2]
    IN  << (x[1] + y[1] + (lo \div 65536)) % 65536, lo % 65536 >>
W_rotl(x, s) ==
    LET y == IF s >= 16 THEN << x[2], x[1] >> ELSE x
        r == s % 16
    IN  IF r = 0 THEN y
        ELSE << ((y[1] * 2^r) % 65536) + (y[2] \div 2^(16 - r)),
                ((y[2] * 2^r) % 65536) + (y[1] \div 2^(16 - r)) >>

RECURSIVE Zeros(_)
Zeros(n) == IF n = 0 THEN << >> ELSE << 0 >> \o Zeros(n - 1)

MD5_Pad(bs) ==
    LET n == Len(bs)
        bits == 8 * n
    IN  bs \o << 128 >> \o Zeros((119 - n) % 64)
           \o << bits % 256, (bits \div 256) % 256, (bits \div 65536) % 256,
                 bits \div 16777216, 0, 0, 0, 0 >>

MD5_Words(block) ==
    [ j \in 1..16 |-> << block[4*j - 1] + 256 * block[4*j], block[4*j - 3] + 256 * block[4*j - 2] >> ]

MD5_Step(st, M, i) ==
    LET A == st[1]
        B == st[2]
        C == st[3]
        D == st[4]
        F == IF i < 16 THEN W_or(W_and(B, C), W_and(W_not(B), D))
             ELSE IF i < 32 THEN W_or(W_and(D, B), W_and(W_not(D), C))
             ELSE IF i < 48 THEN W_xor(W_xor(B, C), D)
             ELSE W_xor(C, W_or(B, W_not(D)))
        g == IF i < 16 THEN i
             ELSE IF i < 32 THEN (5 * i + 1) % 16
             ELSE IF i < 48 THEN (3 * i + 5) % 16
             ELSE (7 * i) % 16
        sum == W_add(W_add(W_add(F, A), MD5_K[i + 1]), M[g + 1])
    IN  << D, W_add(B, W_rotl(sum, MD5_S[i + 1])), B, C >>

\* (the comparison st = << >> is never true; it makes TLC evaluate each
\*  round's state before it enters the next round)
RECURSIVE MD5_Rounds(_, _, _)
MD5_Rounds(st, M, i) ==
    IF i = 64 \/ st = << >> THEN st
    ELSE MD5_Rounds(MD5_Step(st, M, i), M, i + 1)

RECURSIVE MD5_Blocks(_, _)
MD5_Blocks(st, padded) ==
    IF Len(padded) = 0 THEN st
    ELSE LET r == MD5_Rounds(st, MD5_Words(SubSeq(padded, 1, 64)), 0)
         IN  MD5_Blocks([ k \in 1..4 |-> W_add(st[k], r[k]) ],
                        SubSeq(padded, 65, Len(padded)))

HexDigits == << "0","1","2","3","4","5","6","7","8","9","a","b","c","d","e","f" >>
HexByte(b) == << HexDigits[(b \div 16) + 1], HexDigits[(b % 16) + 1] >>
W_hex(w) ==
    HexByte(w[2] % 256) \o HexByte(w[2] \div 256) \o HexByte(w[1] % 256) \o HexByte(w[1] \div 256)

md5_hexdigest(bs) ==
    LET st == MD5_Blocks(MD5_Init, MD5_Pad(bs))
    IN  W_hex(st[1]) \o W_hex(st[2]) \o W_hex(st[3]) \o W_hex(st[4])


\* ------------------------------------------------------------------------
\* WXRobot.__init__: the webhook URL of a robot key
WebhookUrl(k) == "https://qyapi.weixin.qq.com/cgi-bin/webhook/send?key=" \o k

\* ------------------------------------------------------------------------
\* Payload construction
NoBody == [ msgtype |-> "none" ]

\* text_body with the optional mention list of the webhook API switched on
text_body_mentioned(s) ==
    [ msgtype |-> "text", text |-> [ content |-> s, mentioned_list |-> << "@all" >> ] ]

text_body(s) == [ msgtype |-> "text", text |-> [ content |-> s ] ]

markdown_body(s) == [ msgtype |-> "markdown", markdown |-> [ content |-> s ] ]

\* image_body hashing the content after a text round trip
\* (bytes.decode('utf-8', 'ignore').encode()), which drops the bytes above 127
image_body_transcoded(bs) ==
    [ msgtype |-> "image",
      image |-> [ base64 |-> b64encode(bs),
                  md5 |-> md5_hexdigest(SelectSeq(bs, LAMBDA x : x < 128)) ] ]

image_body(bs) ==
    [ msgtype |-> "image",
      image |-> [ base64 |-> b64encode(bs), md5 |-> md5_hexdigest(bs) ] ]

news_body(as) == [ msgtype |-> "news", news |-> [ articles |-> as ] ]

\* dict.get(k): the value, or None when the key is missing
Get(d, k) == IF k \in DOMAIN d THEN d[k] ELSE None

\* the assertions at the head of send_news
send_news_check(as) ==
    IF ~(Len(as) <= 8) THEN "AssertionError"
    ELSE IF \E i \in 1..Len(as) :
                ~Truthy(Get(as[i], "title")) \/ ~Truthy(Get(as[i], "url"))
         THEN "AssertionError"
         ELSE "ok"

\* article lists: n articles, all well-formed except the one at position
\* bad (0: none), which is malformed in the way kind says
GoodArticle(i) ==
    IF i % 2 = 1
    THEN [ title |-> "T", url |-> "http://u" ]
    ELSE [ title |-> "T", description |-> "D", url |-> "http://u", picurl |-> "http://p" ]

BadKinds == { "no_title", "empty_title", "no_url", "empty_url" }

BadArticle(kind) ==
    CASE kind = "no_title"    -> [ url |-> "http://u" ]
      [] kind = "empty_title" -> [ title |-> "", url |-> "http://u" ]
      [] kind = "no_url"      -> [ title |-> "T" ]
      [] kind = "empty_url"   -> [ title |-> "T", url |-> "" ]

ArticleList(n, bad, kind) ==
    [ i \in 1..n |-> IF i = bad THEN BadArticle(kind) ELSE GoodArticle(i) ]

\* ------------------------------------------------------------------------
\* Input resolution in sender

\* resolve_content preferring the file: self.read_file(msg_file_path) or msg_data
resolve_content_file_first(data, path) == Coroutine

\* msg_data or self.read_file(msg_file_path): read_file is an async function
\* called without await, so the right operand is a coroutine object
resolve_content(data, path) == IF Truthy(data) THEN data ELSE Coroutine

\* image_source without the os.path.exists test: every path is a URL
image_source_always_remote(fs, path) == [ local_file |-> None, remote_url |-> path ]

\* the arguments sender passes to send_image; fs is the set of existing paths
image_source(fs, path) ==
    IF path \in fs
    THEN [ local_file |-> path, remote_url |-> None ]
    ELSE [ local_file |-> None, remote_url |-> path ]

\* what read_file returns when its coroutine is run
read_file(fs, path) == IF path \in fs THEN FileText(path) ELSE ""

\* the bytes send_image holds after f.read() / response.read() delivered bs
read_bytes(bs) == bs

\* ------------------------------------------------------------------------
\* Transport
Statuses == { 200, 500 }

ErrMsgs == { "ok", "invalid webhook url", None }

\* a response: its status and its body, which is a JSON object ("dict", with
\* or without an errmsg member), some other JSON value ("list") or no JSON
\* at all ("html"); received is FALSE when the connection fails instead
NoResponse == [ received |-> FALSE, status |-> 0, body |-> "none", errmsg |-> None ]

Responses ==
    [ received : { TRUE }, status : Statuses, body : { "dict" }, errmsg : ErrMsgs ]
    \cup [ received : { TRUE }, status : Statuses, body : { "list", "html" },
           errmsg : { None } ]

PostRequest(u, b) == [ method |-> "POST", url |-> u, json |-> b ]

GetRequest(u) == [ method |-> "GET", url |-> u, json |-> NoBody ]

\* json.dumps of the body (done by session.post(json=body) before anything
\* is sent) raises TypeError on a coroutine object
JsonSerializable(b) ==
    CASE b.msgtype = "text"     -> b.text.content # Coroutine
      [] b.msgtype = "markdown" -> b.markdown.content # Coroutine
      [] OTHER                  -> TRUE

\* _send_requests posting a second time when the first post got no answer
\* or a status other than 200
_send_requests_retry(u, b, r) ==
    IF r.received /\ r.status = 200
    THEN << PostRequest(u, b) >>
    ELSE << PostRequest(u, b), PostRequest(u, b) >>

\* the requests one _send call issues, given what comes back
_send_requests(u, b, r) == << PostRequest(u, b) >>

\* _send_result without the assertion on resp.status
_send_result_no_status(r) ==
    IF ~r.received THEN "ClientError"
    ELSE IF r.body = "html" THEN "ContentTypeError"
    ELSE IF r.body = "list" THEN "AttributeError"
    ELSE IF r.errmsg # "ok" THEN "AssertionError"
    ELSE "ok"

\* how _send ends, given what comes back
_send_result(r) ==
    IF ~r.received THEN "ClientError"
    ELSE IF r.body = "html" THEN "ContentTypeError"
    ELSE IF r.status # 200 THEN "AssertionError"
    ELSE IF r.body = "list" THEN "AttributeError"
    ELSE IF r.errmsg # "ok" THEN "AssertionError"
    ELSE "ok"

\* main_check without the test for a missing -d and -f
main_check_key_type_only(k, t, d, f) ==
    IF ~Truthy(k) \/ ~Truthy(t) THEN "exit" ELSE "ok"

\* the argument checks of main; "exit" is exit(1)
main_check(k, t, d, f) ==
    IF ~Truthy(k) \/ ~Truthy(t) THEN "exit"
    ELSE IF ~Truthy(d) /\ ~Truthy(f) THEN "exit"
    ELSE "ok"

Failures ==
    { "SystemExit", "AssertionError", "TypeError", "AttributeError", "Exception",
      "FileNotFoundError", "ClientError", "ContentTypeError" }

\* ------------------------------------------------------------------------
\* State
VARIABLES
    pc,             \* the function about to run: "idle", a function name, "done"
    entry,          \* the function called from outside
    exists,         \* file system: the paths os.path.exists answers True for
    url,            \* WXRobot.url
    key,            \* main: -k
    msg_type,       \* main: -t, sender: msg_type
    msg_data,       \* main: -d, sender: msg_data
    msg_file_path,  \* main: -f, sender: msg_file_path
    content,        \* send_text / send_markdown: content
    local_file,     \* send_image: local_file
    remote_url,     \* send_image: remote_url
    articles,       \* send_news: articles
    image_content,  \* send_image: image_content
    body,           \* the payload dict handed to _send
    resp,           \* _send: the response of the endpoint
    result,         \* "none", "ok" (returned normally) or the exception raised
    requests,       \* network: the session.get / session.post calls so far, in order
    opened,         \* file system: the files opened for reading so far
    delivered       \* environment: the bytes the file or URL delivered

args == << key, msg_type, msg_data, msg_file_path >>
send_args == << content, local_file, remote_url, articles >>
vars ==
    << pc, entry, exists, url, key, msg_type, msg_data, msg_file_path, content,
       local_file, remote_url, articles, image_content, body, resp, result,
       requests, opened, delivered >>

Init ==
    /\ pc = "idle"
    /\ entry = "none"
    /\ exists \in SUBSET Paths
    /\ url \in { WebhookUrl(k) : k \in Keys }
    /\ key = None
    /\ msg_type = None
    /\ msg_data = None
    /\ msg_file_path = None
    /\ content = None
    /\ local_file = None
    /\ remote_url = None
    /\ articles = << >>
    /\ image_content = << >>
    /\ body = NoBody
    /\ resp = NoResponse
    /\ result = "none"
    /\ requests = << >>
    /\ opened = << >>
    /\ delivered = << >>

\* ------------------------------------------------------------------------
\* Calls from outside

\* the command line: asyncio.run(main()) with the parsed -k -t -d -f
call_main ==
    /\ pc = "idle"
    /\ \E k \in Keys \cup { None }, t \in MsgTypes \cup { None },
          d \in DataValues \cup { None }, f \in Paths \cup { None } :
          /\ key' = k
          /\ msg_type' = t
          /\ msg_data' = d
          /\ msg_file_path' = f
    /\ entry' = "main"
    /\ pc' = "main"
    /\ UNCHANGED << exists, url, send_args, image_content, body, resp, result,
                    requests, opened, delivered >>

call_sender ==
    /\ pc = "idle"
    /\ \E t \in MsgTypes, d \in DataValues \cup { None }, f \in Paths \cup { None } :
          /\ msg_type' = t
          /\ msg_data' = d
          /\ msg_file_path' = f
    /\ entry' = "sender"
    /\ pc' = "sender"
    /\ UNCHANGED << exists, url, key, send_args, image_content, body, resp,
                    result, requests, opened, delivered >>

call_send_text ==
    /\ pc = "idle"
    /\ content' \in DataValues
    /\ entry' = "send_text"
    /\ pc' = "send_text"
    /\ UNCHANGED << exists, url, args, local_file, remote_url, articles,
                    image_content, body, resp, result, requests, opened, delivered >>

call_send_markdown ==
    /\ pc = "idle"
    /\ content' \in DataValues
    /\ entry' = "send_markdown"
    /\ pc' = "send_markdown"
    /\ UNCHANGED << exists, url, args, local_file, remote_url, articles,
                    image_content, body, resp, result, requests, opened, delivered >>

call_send_image ==
    /\ pc = "idle"
    /\ local_file' \in Paths \cup { None }
    /\ remote_url' \in Paths \cup { None }
    /\ entry' = "send_image"
    /\ pc' = "send_image"
    /\ UNCHANGED << exists, url, args, content, articles, image_content, body,
                    resp, result, requests, opened, delivered >>

call_send_news ==
    /\ pc = "idle"
    /\ \E n \in 0..MaxArticles, kind \in BadKinds :
          \E bad \in 0..n : articles' = ArticleList(n, bad, kind)
    /\ entry' = "send_news"
    /\ pc' = "send_news"
    /\ UNCHANGED << exists, url, args, content, local_file, remote_url,
                    image_content, body, resp, result, requests, opened, delivered >>

\* ------------------------------------------------------------------------
\* The functions of weixin.py

\* main, from the argument checks to the call of sender
main ==
    /\ pc = "main"
    /\ IF main_check(key, msg_type, msg_data, msg_file_path) = "exit"
       THEN /\ result' = "SystemExit"
            /\ pc' = "done"
            /\ UNCHANGED << url, opened >>
       ELSE /\ url' = WebhookUrl(key)
            /\ IF Truthy(msg_data) \/ msg_type = "image"
               THEN \* the content is printed from -d, or the path is printed
                    /\ pc' = "sender"
                    /\ UNCHANGED << result, opened >>
               ELSE IF msg_file_path = None
               THEN \* open(None)
                    /\ result' = "TypeError"
                    /\ pc' = "done"
                    /\ UNCHANGED opened
               ELSE IF msg_file_path \in exists
               THEN \* open(file).read() to print the content
                    /\ opened' = Append(opened, [ by |-> "main", path |-> msg_file_path ])
                    /\ pc' = "sender"
                    /\ UNCHANGED result
               ELSE /\ result' = "FileNotFoundError"
                    /\ pc' = "done"
                    /\ UNCHANGED opened
    /\ UNCHANGED << entry, exists, args, send_args, image_content, body, resp,
                    requests, delivered >>

sender_text ==
    /\ msg_type = "text"
    /\ content' = resolve_content(msg_data, msg_file_path)
    /\ pc' = "send_text"
    /\ UNCHANGED << local_file, remote_url, result >>

sender_markdown ==
    /\ msg_type = "markdown"
    /\ content' = resolve_content(msg_data, msg_file_path)
    /\ pc' = "send_markdown"
    /\ UNCHANGED << local_file, remote_url, result >>

sender_image ==
    /\ msg_type = "image"
    /\ IF msg_file_path = None
       THEN \* os.path.exists(None)
            /\ result' = "TypeError"
            /\ pc' = "done"
            /\ UNCHANGED << local_file, remote_url >>
       ELSE /\ local_file' = image_source(exists, msg_file_path).local_file
            /\ remote_url' = image_source(exists, msg_file_path).remote_url
            /\ pc' = "send_image"
            /\ UNCHANGED result
    /\ UNCHANGED content

sender_news ==
    /\ msg_type = "news"
    \* yaml.full_load is handed the coroutine object of read_file, which is
    \* neither str nor bytes and has no read()
    /\ result' = "AttributeError"
    /\ pc' = "done"
    /\ UNCHANGED << content, local_file, remote_url >>

sender_other ==
    /\ msg_type \notin { "text", "markdown", "image", "news" }
    \* no branch matches: sender returns without sending
    /\ result' = "ok"
    /\ pc' = "done"
    /\ UNCHANGED << content, local_file, remote_url >>

sender ==
    /\ pc = "sender"
    /\ \/ sender_text
       \/ sender_markdown
       \/ sender_image
       \/ sender_news
       \/ sender_other
    /\ UNCHANGED << entry, exists, url, args, articles, image_content, body,
                    resp, requests, opened, delivered >>

send_text ==
    /\ pc = "send_text"
    /\ body' = text_body(content)
    /\ pc' = "_send"
    /\ UNCHANGED << entry, exists, url, args, send_args, image_content, resp,
                    result, requests, opened, delivered >>

send_markdown ==
    /\ pc = "send_markdown"
    /\ body' = markdown_body(content)
    /\ pc' = "_send"
    /\ UNCHANGED << entry, exists, url, args, send_args, image_content, resp,
                    result, requests, opened, delivered >>

\* send_image with local_file: aiofiles.open(local_file, 'rb'), f.read()
send_image_local ==
    /\ Truthy(local_file)
    /\ IF local_file \in exists
       THEN \E bs \in ByteSeqs :
               /\ opened' = Append(opened, [ by |-> "send_image", path |-> local_file ])
               /\ delivered' = bs
               /\ image_content' = read_bytes(bs)
               /\ body' = image_body(read_bytes(bs))
               /\ pc' = "_send"
               /\ UNCHANGED result
       ELSE /\ result' = "FileNotFoundError"
            /\ pc' = "done"
            /\ UNCHANGED << opened, delivered, image_content, body >>
    /\ UNCHANGED requests

\* send_image with remote_url only: session.get(remote_url), response.read()
send_image_remote ==
    /\ ~Truthy(local_file)
    /\ Truthy(remote_url)
    /\ requests' = Append(requests, GetRequest(remote_url))
    /\ \/ \E bs \in ByteSeqs :
             /\ IsHttpUrl(remote_url)
             /\ delivered' = bs
             /\ image_content' = read_bytes(bs)
             /\ body' = image_body(read_bytes(bs))
             /\ pc' = "_send"
             /\ UNCHANGED result
       \/ \* the string is no URL, or the connection fails
          /\ result' = "ClientError"
          /\ pc' = "done"
          /\ UNCHANGED << delivered, image_content, body >>
    /\ UNCHANGED opened

send_image_neither ==
    /\ ~Truthy(local_file)
    /\ ~Truthy(remote_url)
    /\ result' = "Exception"
    /\ pc' = "done"
    /\ UNCHANGED << requests, opened, delivered, image_content, body >>

send_image ==
    /\ pc = "send_image"
    /\ \/ send_image_local
       \/ send_image_remote
       \/ send_image_neither
    /\ UNCHANGED << entry, exists, url, args, send_args, resp >>

send_news ==
    /\ pc = "send_news"
    /\ IF send_news_check(articles) = "ok"
       THEN /\ body' = news_body(articles)
            /\ pc' = "_send"
            /\ UNCHANGED result
       ELSE /\ result' = send_news_check(articles)
            /\ pc' = "done"
            /\ UNCHANGED body
    /\ UNCHANGED << entry, exists, url, args, send_args, image_content, resp,
                    requests, opened, delivered >>

\* _send: one session.post and the checks on its response.  Whatever _send
\* raises propagates unchanged through send_*, sender and main; when it
\* returns, so do they (main after printing 'Complete to send message').
_send ==
    /\ pc = "_send"
    /\ IF ~JsonSerializable(body)
       THEN /\ result' = "TypeError"
            /\ UNCHANGED << resp, requests >>
       ELSE \E r \in Responses \cup { NoResponse } :
               /\ requests' = requests \o _send_requests(url, body, r)
               /\ resp' = r
               /\ result' = _send_result(r)
    /\ pc' = "done"
    /\ UNCHANGED << entry, exists, url, args, send_args, image_content, body,
                    opened, delivered >>

Next ==
    \/ call_main
    \/ call_sender
    \/ call_send_text
    \/ call_send_markdown
    \/ call_send_image
    \/ call_send_news
    \/ main
    \/ sender
    \/ send_text
    \/ send_markdown
    \/ send_image
    \/ send_news
    \/ _send

Spec == Init /\ [][Next]_vars

TypeOK ==
    /\ pc \in { "idle", "main", "sender", "send_text", "send_markdown",
                "send_image", "send_news", "_send", "done" }
    /\ result \in { "none", "ok" } \cup Failures
    /\ (pc = "done") = (result # "none")

\* ------------------------------------------------------------------------
\* Observations on the request log
Posts == { i \in 1..Len(requests) : requests[i].method = "POST" }

Gets == { i \in 1..Len(requests) : requests[i].method = "GET" }

PostIssued == Posts # { }

Finished == pc = "done"

\* the News invariant of the data model: 1 to 8 articles, each with a
\* non-empty title and a non-empty url
NewsInvariant(as) ==
    /\ Len(as) >= 1
    /\ Len(as) <= 8
    /\ \A i \in 1..Len(as) :
          /\ "title" \in DOMAIN as[i] /\ as[i].title # ""
          /\ "url" \in DOMAIN as[i] /\ as[i].url # ""

ResponseOk ==
    resp.received /\ resp.status = 200 /\ resp.body = "dict" /\ resp.errmsg = "ok"

\* ------------------------------------------------------------------------
\* C1: whenever a send has posted its payload, it ends successfully if and
\* only if the response has status 200 and a body whose errmsg is "ok";
\* every other response (status 500 included) ends in a raised failure.
C1_SuccessIffStatus200AndErrmsgOk ==
    (Finished /\ PostIssued) =>
        /\ (result = "ok") <=> ResponseOk
        /\ ~ResponseOk => result \in Failures

C1_Witness ==
    /\ Finished
    /\ PostIssued
    /\ resp.status = 200
    /\ resp.errmsg = "ok"
    /\ result = "ok"

\* ------------------------------------------------------------------------
\* C2 as stated, for the calls that get as far as transmitting their
\* payload: every such call of send_text, send_markdown, send_news and of
\* send_image with a local file or a remote URL has performed exactly one
\* network request when it ends.
C2_ExactlyOneRequestPerCall ==
    ( /\ Finished
      /\ \/ entry \in { "send_text", "send_markdown", "send_news" }
         \/ entry = "send_image" /\ (Truthy(local_file) \/ Truthy(remote_url))
      /\ PostIssued )
    => Len(requests) = 1

\* C2 amended: a call issues at most one POST, always as its last request,
\* and exactly one when it ends in success or in a failure of the POST or of
\* its response; a call that fails earlier has issued no POST; send_image
\* with a remote URL (and no local file) issues exactly one GET, before the
\* POST, and no other call issues a GET; no request follows a failed one.
C2_OnePostAtMostOneGetNoRetry ==
    /\ Cardinality(Posts) <= 1
    /\ Cardinality(Gets) <= 1
    /\ Posts \subseteq { Len(requests) }
    /\ Gets \subseteq { 1 }
    /\ (Gets # { }) <=>
          ( /\ pc \in { "_send", "done" }
            /\ ~Truthy(local_file)
            /\ Truthy(remote_url) )
    /\ Finished =>
          /\ (result = "ok" /\ body # NoBody) => Cardinality(Posts) = 1
          /\ resp.received => Cardinality(Posts) = 1
          /\ result \in { "SystemExit", "TypeError", "Exception", "FileNotFoundError" }
                => Posts = { }
          /\ (result \in { "AssertionError", "AttributeError" } /\ ~resp.received)
                => Posts = { }
          /\ result = "ClientError" => Len(requests) >= 1

C2_Witness ==
    /\ Finished
    /\ entry = "send_image"
    /\ Len(requests) = 2
    /\ requests[1] = GetRequest(remote_url)
    /\ requests[2] = PostRequest(url, body)
    /\ result = "ok"

\* ------------------------------------------------------------------------
\* C3 as stated: send_news fails validation exactly for the article lists
\* that break the News invariant (0 articles, 9 or more, a missing or empty
\* title or url) and passes validation for every list that satisfies it.
C3_NewsValidationMatchesInvariant ==
    (entry = "send_news" /\ pc \in { "_send", "done" }) =>
        ( (result = "AssertionError" /\ ~PostIssued) <=> ~NewsInvariant(articles) )

\* ------------------------------------------------------------------------
\* C4 as stated: for an article list that breaks the News invariant,
\* send_news never issues a POST.
C4_InvalidNewsNeverPosted ==
    (entry = "send_news" /\ ~NewsInvariant(articles)) => ~PostIssued

\* ------------------------------------------------------------------------
\* C5: for text and markdown, when sender gets literal data together with a
\* file path, the content it passes on and the content in the payload are
\* the literal data, and no file is ever opened, existing or not.
C5_LiteralDataWinsFileNeverRead ==
    ( /\ entry \in { "sender", "main" }
      /\ msg_type \in { "text", "markdown" }
      /\ Truthy(msg_data)
      /\ msg_file_path # None )
    => /\ opened = << >>
       /\ pc \in { "send_text", "send_markdown" } => content = msg_data
       /\ (pc \in { "_send", "done" } /\ result # "SystemExit") =>
             /\ content = msg_data
             /\ body = IF msg_type = "text"
                       THEN [ msgtype |-> "text", text |-> [ content |-> msg_data ] ]
                       ELSE [ msgtype |-> "markdown", markdown |-> [ content |-> msg_data ] ]
       /\ \A i \in Posts : requests[i].json = body

C5_Witness ==
    /\ Finished
    /\ entry = "sender"
    /\ msg_type = "markdown"
    /\ msg_data = "# Title\n**bold**"
    /\ msg_file_path = "demo/file"
    /\ msg_file_path \in exists
    /\ opened = << >>
    /\ PostIssued
    /\ requests[1].json.markdown.content = "# Title\n**bold**"

\* ------------------------------------------------------------------------
\* C6 as stated: for text and markdown, when sender gets no literal data and
\* a file path, the content it resolves is the text of the file when the
\* path exists and the empty string when it does not, without an error.
C6_ContentFromFileOrEmpty ==
    ( /\ entry = "sender"
      /\ msg_type \in { "text", "markdown" }
      /\ ~Truthy(msg_data)
      /\ msg_file_path # None
      /\ pc \in { "send_text", "send_markdown", "_send", "done" } )
    => /\ content = read_file(exists, msg_file_path)
       /\ result \notin { "TypeError", "FileNotFoundError" }

\* ------------------------------------------------------------------------
\* C7: an invocation with neither literal data nor a file path fails before
\* any network activity: the command line exits with status 1 after the
\* argument check, for every message type; a direct call of sender for one
\* of the four message types ends in a raised error; and in neither case is
\* any request ever issued or any file opened.
C7_NoDataNoFileFailsBeforeNetwork ==
    ( /\ entry \in { "main", "sender" }
      /\ ~Truthy(msg_data)
      /\ ~Truthy(msg_file_path) )
    => /\ requests = << >>
       /\ opened = << >>
       /\ (Finished /\ entry = "main") => result = "SystemExit"
       /\ (Finished /\ msg_type \in { "text", "markdown", "image", "news" }) =>
             result \in Failures

C7_Witness ==
    /\ Finished
    /\ entry = "main"
    /\ key = "xxxx"
    /\ msg_type = "text"
    /\ msg_data = None
    /\ msg_file_path = None
    /\ result = "SystemExit"
    /\ requests = << >>

\* ------------------------------------------------------------------------
\* C8: for the bytes b delivered by the local file or by the remote URL, the
\* payload send_image builds has msgtype "image" and nothing but the image
\* record, image.base64 decodes back to exactly b, image.md5 is the 32-digit
\* lowercase hex MD5 of exactly b, and that payload is what is posted.
C8_ImagePayloadFromExactBytes ==
    /\ (pc = "_send" /\ body.msgtype = "image") =>
          /\ DOMAIN body = { "msgtype", "image" }
          /\ DOMAIN body.image = { "base64", "md5" }
          /\ b64decode(body.image.base64) = delivered
          /\ body.image.md5 = md5_hexdigest(delivered)
          /\ Len(body.image.md5) = 32
          /\ \A i \in 1..32 : \E j \in 1..16 : body.image.md5[i] = HexDigits[j]
    /\ (body.msgtype = "image") => \A i \in Posts : requests[i].json = body

C8_Witness ==
    /\ pc = "_send"
    /\ delivered = << 255, 97 >>
    /\ body.msgtype = "image"
    /\ body.image.base64 = << "/", "2", "E", "=" >>
    /\ body.image.md5 =
          << "8", "9", "e", "7", "7", "8", "5", "7", "6", "4", "2", "5", "b", "d", "5", "1",
             "3", "d", "8", "2", "0", "7", "f", "2", "7", "2", "0", "f", "7", "d", "f", "2" >>

\* ------------------------------------------------------------------------
\* C9: for every content string s, send_text builds and posts exactly
\* {msgtype: "text", text: {content: s}} and send_markdown exactly
\* {msgtype: "markdown", markdown: {content: s}}, with no other field; so
\* type text with data "Hello world" posts
\* {"msgtype":"text","text":{"content":"Hello world"}}.
C9_TextAndMarkdownPayloadExact ==
    /\ (entry = "send_text" /\ pc \in { "_send", "done" }) =>
          /\ body = [ msgtype |-> "text", text |-> [ content |-> content ] ]
          /\ \A i \in Posts : requests[i].json = body
    /\ (entry = "send_markdown" /\ pc \in { "_send", "done" }) =>
          /\ body = [ msgtype |-> "markdown", markdown |-> [ content |-> content ] ]
          /\ \A i \in Posts : requests[i].json = body
    /\ ( /\ entry \in { "main", "sender" }
         /\ msg_type = "text"
         /\ msg_data = "Hello world"
         /\ pc \in { "_send", "done" }
         /\ result # "SystemExit" ) =>
          /\ body = [ msgtype |-> "text", text |-> [ content |-> "Hello world" ] ]
          /\ \A i \in Posts : requests[i].json = body

C9_Witness ==
    /\ Finished
    /\ entry = "main"
    /\ msg_type = "text"
    /\ msg_data = "Hello world"
    /\ requests =
          << PostRequest(WebhookUrl("xxxx"),
                         [ msgtype |-> "text", text |-> [ content |-> "Hello world" ] ]) >>
    /\ result = "ok"

\* ------------------------------------------------------------------------
\* C10: for type image, sender chooses the byte source from the file path
\* alone, whatever the literal data: an existing path is passed as
\* local_file, is read from disk and no GET is issued; any other path is
\* passed as remote_url and fetched by exactly one GET, the first request;
\* the POST, if any, comes last and carries the payload of those bytes.
C10_ImageSourceFromPathAlone ==
    ( /\ entry \in { "sender", "main" }
      /\ msg_type = "image"
      /\ msg_file_path # None
      /\ pc \in { "send_image", "_send", "done" }
      /\ result # "SystemExit" )
    => /\ IF msg_file_path \in exists
          THEN /\ local_file = msg_file_path
               /\ remote_url = None
               /\ Gets = { }
               /\ pc # "send_image" =>
                     opened = << [ by |-> "send_image", path |-> msg_file_path ] >>
          ELSE /\ local_file = None
               /\ remote_url = msg_file_path
               /\ opened = << >>
               /\ pc # "send_image" =>
                     Gets = { 1 } /\ requests[1] = GetRequest(msg_file_path)
       /\ \A i \in Posts :
             /\ i = Len(requests)
             /\ image_content = delivered
             /\ requests[i].json = body
             /\ body.msgtype = "image"
             /\ body.image.base64 = b64encode(delivered)

C10_Witness ==
    /\ Finished
    /\ entry = "sender"
    /\ msg_type = "image"
    /\ msg_data = "Hello world"
    /\ msg_file_path = "http://host/picture.jpg"
    /\ msg_file_path \notin exists
    /\ Len(requests) = 2
    /\ requests[1] = GetRequest("http://host/picture.jpg")
    /\ requests[2].method = "POST"
    /\ requests[2].json.image.base64 = b64encode(delivered)
    /\ opened = << >>
====
